---- MODULE Spec2Model ----
(***************************************************************************)
(* The two OrbitViewer widgets of the repository (mgs_viewer_in_motion.py, *)
(* the animated viewer, and mgs_viewer_in_static.py, the static viewer) as *)
(* one state machine: the camera state, the animation cursor, the event    *)
(* handlers and one paintGL frame, object by object.                       *)
(*                                                                         *)
(* Units.  TLC's integers are 32 bits wide and max_zoom is 5e10 km, so the *)
(* zoom is counted in units of 100 km.  The rotation angles are counted in *)
(* fifths of a degree, so that the factor 0.4 is the integer 2.  Floats of *)
(* the animation are the record [q, t] defined at Float below.             *)
(***************************************************************************)
EXTENDS Integers, Sequences, FiniteSets, TLC

VARIABLES
    viewer,          \* "motion" or "static": which of the two scripts runs
    xyz,             \* self.xyz (motion) / self.pos (static): the positions
    vel,             \* self.vel (static viewer only; <<>> in the animated one)
    mars_sun,        \* self.mars_sun
    time_speed,      \* CONFIG["time_speed"], a Float
    velocity_stride, \* CONFIG["velocity_stride"]
    index,           \* self.index, the animation cursor
    rot_x, rot_y,    \* the camera angles, in fifths of a degree
    zoom,            \* self.zoom, in units of 100 km
    has_last_mouse,  \* whether the attribute self.last_mouse exists
    last_mouse,      \* self.last_mouse (<<0, 0>> while the attribute is missing)
    raised,          \* the exception that ended a handler, or "none"
    pc,              \* "idle", or the object paintGL draws next
    modelview,       \* the GL model-view matrix stack, the top last
    frame,           \* what the frame being painted has emitted so far
    nevents,         \* the number of handlers that have run
    last_event,      \* the handler that ran last, with its arguments
    hist,            \* the value of self.index at construction and after each tick
    drag             \* the press point and the angles at the last press

vars == <<viewer, xyz, vel, mars_sun, time_speed, velocity_stride, index, rot_x,
          rot_y, zoom, has_last_mouse, last_mouse, raised, pc, modelview, frame,
          nevents, last_event, hist, drag>>

scene == <<viewer, xyz, vel, mars_sun, time_speed, velocity_stride, index, rot_x,
           rot_y, zoom, has_last_mouse, last_mouse, drag, hist>>

-----------------------------------------------------------------------------
(* Bounds of the model *)

MaxEvents == 4     \* handlers run in one behaviour
MaxLen == 4        \* samples of a trajectory
MaxStride == 3     \* the strides tried for the velocity vectors
MaxSpeed == 6      \* |time_speed| tried, in units of 1 / Den
Den == 2           \* the fractions of time_speed are multiples of 1 / Den

-----------------------------------------------------------------------------
(* CONFIG and the literals of the handlers *)

min_zoom == 50              \* 5_000 km
max_zoom == 500000000       \* 5e10 km
initial_zoom == 350         \* 35000 km
zoom_step == 20             \* 2000 km for one notch
notch == 120                \* the wheel delta of one notch
initial_rot_x == -200       \* -40 degrees
initial_rot_y == 150        \* 30 degrees
drag_gain == 2              \* 0.4 degrees for one pixel
velocity_scale == 3000
sun_distance_scale == 1
config_velocity_stride == 10
config_time_speed == [q |-> 5 * Den, t |-> 0]     \* 5.0

-----------------------------------------------------------------------------
(* Vectors *)

Neg(v) == <<0 - v[1], 0 - v[2], 0 - v[3]>>

Add(v, w) == <<v[1] + w[1], v[2] + w[2], v[3] + w[3]>>

Scale(v, k) == <<v[1] * k, v[2] * k, v[3] * k>>

Min(a, b) == IF a <= b THEN a ELSE b

Max(a, b) == IF a >= b THEN a ELSE b

-----------------------------------------------------------------------------
(* Floats.  The Python float q / Den + t * 2^-60, with t in {-1, 0, 1}: a   *)
(* multiple of 1 / Den of small magnitude, or one of the two tiny values    *)
(* +-2^-60.  Den is a power of two, so every sum and remainder taken below  *)
(* on multiples of 1 / Den is exact in IEEE double arithmetic; a nonzero    *)
(* multiple of 1 / Den plus or minus 2^-60 needs more than 53 bits and      *)
(* rounds to that multiple.                                                 *)

Float(q, t) == [q |-> q, t |-> t]

FromInt(i) == Float(i * Den, 0)

\* round to nearest double
Round(x) == IF x.q # 0 THEN Float(x.q, 0) ELSE Float(0, x.t)

\* float + float
FloatAdd(a, b) == Round(Float(a.q + b.q, a.t + b.t))

IsZero(x) == x.q = 0 /\ x.t = 0

IsNegative(x) == x.q < 0 \/ (x.q = 0 /\ x.t < 0)

\* C fmod(x, n) for an integer n >= 1: the remainder with the sign of x
Fmod(x, n) ==
    IF x.q >= 0 THEN Float(x.q % (n * Den), x.t)
    ELSE Float(0 - ((0 - x.q) % (n * Den)), x.t)

\* Python's x % n on floats, n >= 1 (float_rem): fmod, then the divisor is
\* added to a nonzero remainder of the other sign, and the sum is rounded
PyMod(x, n) ==
    LET mod == Fmod(x, n)
    IN  IF ~IsZero(mod) /\ IsNegative(mod) THEN FloatAdd(mod, FromInt(n)) ELSE mod

\* int(x): truncation towards zero
PyInt(x) == IF x.q >= 0 THEN x.q \div Den ELSE 0 - ((0 - x.q) \div Den)

-----------------------------------------------------------------------------
(* The GL model-view matrix, kept as the sequence of the transforms          *)
(* multiplied into it since glLoadIdentity: <<kind, angle, x, y, z>>.        *)

Identity == <<>>

Translatef(v) == <<"T", 0, v[1], v[2], v[3]>>

Rotatef(a, axis) == <<"R", a, axis[1], axis[2], axis[3]>>

Top(stack) == stack[Len(stack)]

\* glPushMatrix: duplicate the top
PushMatrix(stack) == Append(stack, Top(stack))

\* glPopMatrix: drop the top
PopMatrix(stack) == SubSeq(stack, 1, Len(stack) - 1)

\* multiply the top by m
MultMatrix(stack, m) == [stack EXCEPT ![Len(stack)] = Append(@, m)]

\* glLoadIdentity: replace the top
LoadIdentity(stack) == [stack EXCEPT ![Len(stack)] = Identity]

EmptyFrame == [spheres |-> <<>>, vertices |-> <<>>, lines |-> <<>>]

-----------------------------------------------------------------------------
(* The handlers' computations *)

\* delta / 120 * zoom_step, exact for the deltas of Deltas (multiples of 6)
ZoomChange(delta) ==
    (delta \div notch) * zoom_step + ((delta % notch) * zoom_step) \div notch

\* wheelEvent without the upper clamp
wheel_zoom_unbounded(z, delta) == Max(min_zoom, z - ZoomChange(delta))

\* wheelEvent with the sign of the step reversed
wheel_zoom_reversed(z, delta) ==
    Max(min_zoom, Min(z + ZoomChange(delta), max_zoom))

\* wheelEvent: self.zoom -= ...; self.zoom = max(min_zoom, min(self.zoom, max_zoom))
wheel_zoom(z, delta) == Max(min_zoom, Min(z - ZoomChange(delta), max_zoom))

\* mouseMoveEvent assigning the angle instead of adding to it
drag_rot_assigned(rot, d) == d * drag_gain

\* mouseMoveEvent: the new angle for a displacement d of the pointer
drag_rot(rot, d) == rot + d * drag_gain

\* update_animation: index += time_speed; index %= len(xyz); index = int(index)
next_index(idx, ts, n) == PyInt(PyMod(FloatAdd(FromInt(idx), ts), n))

\* Python's sequence indexing: -n <= i < n, negative indices count from the end
ValidIndex(i, n) == 0 - n <= i /\ i < n

Item(seq, i) == IF i >= 0 THEN seq[i + 1] ELSE seq[Len(seq) + i + 1]

\* range(i, stop, step), step >= 1
RECURSIVE Range(_, _, _)
Range(i, stop, step) ==
    IF i >= stop THEN <<>> ELSE <<i>> \o Range(i + step, stop, step)

-----------------------------------------------------------------------------
(* The draw_* methods, on gl = [stack, frame] *)

gluSphere(gl, name) ==
    [gl EXCEPT !.frame.spheres = Append(@, <<name, Top(gl.stack)>>)]

glPushMatrix(gl) == [gl EXCEPT !.stack = PushMatrix(@)]

glPopMatrix(gl) == [gl EXCEPT !.stack = PopMatrix(@)]

glTranslatef(gl, v) == [gl EXCEPT !.stack = MultMatrix(@, Translatef(v))]

glRotatef(gl, a, axis) == [gl EXCEPT !.stack = MultMatrix(@, Rotatef(a, axis))]

glLoadIdentity(gl) == [gl EXCEPT !.stack = LoadIdentity(@)]

\* paintGL, up to the first draw call
paint_setup(gl, z, rx, ry) ==
    LET g0 == [glLoadIdentity(gl) EXCEPT !.frame = EmptyFrame]
        g1 == glTranslatef(g0, <<0, 0, 0 - z>>)
        g2 == glRotatef(g1, rx, <<1, 0, 0>>)
    IN  glRotatef(g2, ry, <<0, 1, 0>>)

\* draw_sun without its glPopMatrix
draw_sun_unpopped(gl, ms) ==
    gluSphere(glTranslatef(glPushMatrix(gl), Scale(Neg(ms), sun_distance_scale)),
              "sun")

draw_sun(gl, ms) ==
    LET sun_pos == Scale(Neg(ms), sun_distance_scale)
    IN  glPopMatrix(gluSphere(glTranslatef(glPushMatrix(gl), sun_pos), "sun"))

draw_mars_wireframe(gl) == glPopMatrix(gluSphere(glPushMatrix(gl), "mars"))

draw_mars_atmosphere(gl) == glPopMatrix(gluSphere(glPushMatrix(gl), "atmosphere"))

\* draw_trajectory (GL_LINE_STRIP) and draw_spacecraft_points (GL_POINTS):
\* one vertex for each sample, in order
draw_trajectory(gl, points) == [gl EXCEPT !.frame.vertices = @ \o points]

\* draw_spacecraft, once self.xyz[self.index] has been read
draw_spacecraft(gl, p) ==
    glPopMatrix(gluSphere(glTranslatef(glPushMatrix(gl), p), "spacecraft"))

\* the two vertices draw_velocity_vectors emits for sample i
segment(p, v, i) ==
    <<Item(p, i), Add(Item(p, i), Scale(Item(v, i), velocity_scale))>>

RECURSIVE segments(_, _, _)
segments(p, v, is) ==
    IF is = <<>> THEN <<>>
    ELSE segment(p, v, Head(is)) \o segments(p, v, Tail(is))

\* draw_velocity_vectors stopping one sample early
draw_velocity_vectors_short(gl, p, v, stride) ==
    [gl EXCEPT !.frame.lines = @ \o segments(p, v, Range(0, Len(p) - 1, stride))]

\* for i in range(0, len(self.pos), CONFIG["velocity_stride"]): two vertices
draw_velocity_vectors(gl, p, v, stride) ==
    [gl EXCEPT !.frame.lines = @ \o segments(p, v, Range(0, Len(p), stride))]

-----------------------------------------------------------------------------
(* Inputs *)

\* wheel deltas: one notch either way, a fraction of a notch, and the
\* largest multiples of a notch that two events need to cross the zoom range
Deltas == {notch, 0 - notch, 0 - 6, notch * 15000000, 0 - notch * 15000000}

\* pointer positions
Points == {<<100, 100>>, <<110, 130>>, <<90, 100>>}

\* sample positions (km) and velocities (km/s)
Positions == {<<4000, 0, 0>>, <<0, -3800, 500>>}

Velocities == {<<0, 3, 0>>, <<-2, 0, 1>>}

Orbit(n) == [i \in 1..n |-> <<4000 - 10 * i, 100 * i, 0 - i>>]

Speeds(n) == [i \in 1..n |-> <<i, 3, 0 - 1>>]

SunVector == <<200000000, 30000000, -100>>

\* the values of time_speed tried: the multiples of 1 / Den up to MaxSpeed,
\* the shipped 5.0, and the tiny values +2^-60 and -2^-60
TimeSpeeds ==
    {Float(k, 0) : k \in (0 - MaxSpeed)..MaxSpeed}
        \cup {config_time_speed, Float(0, 1), Float(0, -1)}

-----------------------------------------------------------------------------
(* The state after OrbitViewer.__init__ *)

Fresh ==
    /\ index = 0
    /\ rot_x = initial_rot_x
    /\ rot_y = initial_rot_y
    /\ zoom = initial_zoom
    /\ has_last_mouse = FALSE
    /\ last_mouse = <<0, 0>>
    /\ raised = "none"
    /\ pc = "idle"
    /\ modelview = <<Identity>>
    /\ frame = EmptyFrame
    /\ nevents = 0
    /\ last_event = <<"none", 0, 0>>
    /\ hist = <<0>>
    /\ drag = <<0, 0, initial_rot_x, initial_rot_y>>

\* either viewer as shipped, on a trajectory of three samples
Init ==
    /\ viewer \in {"motion", "static"}
    /\ xyz = Orbit(3)
    /\ vel = IF viewer = "static" THEN Speeds(3) ELSE <<>>
    /\ mars_sun = SunVector
    /\ time_speed = config_time_speed
    /\ velocity_stride = config_velocity_stride
    /\ Fresh

\* the animated viewer on every trajectory length from 1 (load_geometry_data
\* reads row 0, so a loaded trajectory has a sample) and every time_speed
InitAnim ==
    /\ viewer = "motion"
    /\ \E n \in 1..MaxLen : xyz = Orbit(n)
    /\ vel = <<>>
    /\ mars_sun = SunVector
    /\ time_speed \in TimeSpeeds
    /\ velocity_stride = config_velocity_stride
    /\ Fresh

\* the static viewer on every sample count from 0 and every stride, and on
\* 25 samples with the shipped stride
InitStatic ==
    /\ viewer = "static"
    /\ \/ \E n \in 0..MaxLen :
            /\ xyz \in [1..n -> Positions]
            /\ vel \in [1..n -> Velocities]
            /\ velocity_stride \in 1..MaxStride
       \/ /\ xyz = Orbit(25)
          /\ vel = Speeds(25)
          /\ velocity_stride = config_velocity_stride
    /\ mars_sun = SunVector
    /\ time_speed = config_time_speed
    /\ Fresh

-----------------------------------------------------------------------------
(* The handlers.  Qt runs them one at a time on the GUI thread; an          *)
(* exception leaving a handler ends the run.                                *)

Ready == pc = "idle" /\ raised = "none" /\ nevents < MaxEvents

Handled(ev) == nevents' = nevents + 1 /\ last_event' = ev

WheelEvent ==
    \E delta \in Deltas :
        /\ Ready
        /\ zoom' = wheel_zoom(zoom, delta)
        /\ Handled(<<"wheel", delta, 0>>)
        /\ UNCHANGED <<viewer, xyz, vel, mars_sun, time_speed, velocity_stride,
                       index, rot_x, rot_y, has_last_mouse, last_mouse, raised,
                       pc, modelview, frame, hist, drag>>

MousePressEvent ==
    \E p \in Points :
        /\ Ready
        /\ last_mouse' = p
        /\ has_last_mouse' = TRUE
        /\ drag' = <<p[1], p[2], rot_x, rot_y>>
        /\ Handled(<<"press", p[1], p[2]>>)
        /\ UNCHANGED <<viewer, xyz, vel, mars_sun, time_speed, velocity_stride,
                       index, rot_x, rot_y, zoom, raised, pc, modelview, frame,
                       hist>>

MouseMoveEvent ==
    \E p \in Points :
        /\ Ready
        /\ IF has_last_mouse
           THEN /\ rot_x' = drag_rot(rot_x, p[2] - last_mouse[2])
                /\ rot_y' = drag_rot(rot_y, p[1] - last_mouse[1])
                /\ last_mouse' = p
                /\ UNCHANGED raised
           ELSE \* self.last_mouse is read before it was ever assigned
                /\ raised' = "AttributeError"
                /\ UNCHANGED <<rot_x, rot_y, last_mouse>>
        /\ Handled(<<"move", p[1], p[2]>>)
        /\ UNCHANGED <<viewer, xyz, vel, mars_sun, time_speed, velocity_stride,
                       index, zoom, has_last_mouse, pc, modelview, frame, hist,
                       drag>>

\* update_animation that also turns the camera
UpdateAnimation_spinning ==
    /\ viewer = "motion"
    /\ Ready
    /\ index' = next_index(index, time_speed, Len(xyz))
    /\ hist' = Append(hist, index')
    /\ rot_y' = rot_y + 1
    /\ Handled(<<"tick", 0, 0>>)
    /\ UNCHANGED <<viewer, xyz, vel, mars_sun, time_speed, velocity_stride,
                   rot_x, zoom, has_last_mouse, last_mouse, raised, pc,
                   modelview, frame, drag>>

\* the QTimer's timeout, in the animated viewer
UpdateAnimation ==
    /\ viewer = "motion"
    /\ Ready
    /\ index' = next_index(index, time_speed, Len(xyz))
    /\ hist' = Append(hist, index')
    /\ Handled(<<"tick", 0, 0>>)
    /\ UNCHANGED <<viewer, xyz, vel, mars_sun, time_speed, velocity_stride,
                   rot_x, rot_y, zoom, has_last_mouse, last_mouse, raised, pc,
                   modelview, frame, drag>>

-----------------------------------------------------------------------------
(* paintGL, one step for the set-up and one for each draw_* call *)

GL == [stack |-> modelview, frame |-> frame]

Drawn(gl, next) ==
    /\ modelview' = gl.stack
    /\ frame' = gl.frame
    /\ pc' = next
    /\ UNCHANGED <<raised, nevents, last_event, scene>>

PaintGL ==
    /\ Ready
    /\ LET gl == paint_setup(GL, zoom, rot_x, rot_y)
       IN  /\ modelview' = gl.stack
           /\ frame' = gl.frame
    /\ pc' = "sun"
    /\ Handled(<<"paint", 0, 0>>)
    /\ UNCHANGED <<raised, scene>>

DrawSun == pc = "sun" /\ Drawn(draw_sun(GL, mars_sun), "mars")

DrawMarsWireframe == pc = "mars" /\ Drawn(draw_mars_wireframe(GL), "atmosphere")

DrawMarsAtmosphere ==
    /\ pc = "atmosphere"
    /\ Drawn(draw_mars_atmosphere(GL),
             IF viewer = "motion" THEN "trajectory" ELSE "points")

DrawTrajectory == pc = "trajectory" /\ Drawn(draw_trajectory(GL, xyz), "spacecraft")

DrawSpacecraft ==
    /\ pc = "spacecraft"
    /\ IF ValidIndex(index, Len(xyz))
       THEN Drawn(draw_spacecraft(GL, Item(xyz, index)), "idle")
       ELSE \* self.xyz[self.index] raises before anything is drawn
            /\ raised' = "IndexError"
            /\ pc' = "idle"
            /\ UNCHANGED <<modelview, frame, nevents, last_event, scene>>

DrawSpacecraftPoints == pc = "points" /\ Drawn(draw_trajectory(GL, xyz), "vectors")

DrawVelocityVectors ==
    /\ pc = "vectors"
    /\ Drawn(draw_velocity_vectors(GL, xyz, vel, velocity_stride), "idle")

-----------------------------------------------------------------------------
(* Specifications *)

Paint ==
    \/ PaintGL
    \/ DrawSun
    \/ DrawMarsWireframe
    \/ DrawMarsAtmosphere

Next ==
    \/ WheelEvent
    \/ MousePressEvent
    \/ MouseMoveEvent
    \/ UpdateAnimation
    \/ Paint
    \/ DrawTrajectory
    \/ DrawSpacecraft
    \/ DrawSpacecraftPoints
    \/ DrawVelocityVectors

Spec == Init /\ [][Next]_vars

NextAnim ==
    \/ UpdateAnimation
    \/ Paint
    \/ DrawTrajectory
    \/ DrawSpacecraft

SpecAnim == InitAnim /\ [][NextAnim]_vars

NextStatic ==
    \/ Paint
    \/ DrawSpacecraftPoints
    \/ DrawVelocityVectors

SpecStatic == InitStatic /\ [][NextStatic]_vars

-----------------------------------------------------------------------------
(* Properties *)

\* a step in which the handler ev ran
Ran(ev) == nevents' = nevents + 1 /\ last_event' = ev

RanKind(kind) == nevents' = nevents + 1 /\ last_event'[1] = kind

\* the matrix a frame is to be drawn under: T(0, 0, -zoom) * Rx(rot_x) * Ry(rot_y)
ViewMatrix(z, rx, ry) ==
    <<Translatef(<<0, 0, 0 - z>>), Rotatef(rx, <<1, 0, 0>>), Rotatef(ry, <<0, 1, 0>>)>>

Clamp(x, lo, hi) == IF x < lo THEN lo ELSE IF x > hi THEN hi ELSE x

\* C1: in both viewers the zoom stays within [min_zoom, max_zoom] after any
\* sequence of wheel, press, move and tick events, whatever the deltas.
C1_ZoomInBounds == min_zoom <= zoom /\ zoom <= max_zoom

\* repeated zoom-out events have brought the zoom to exactly max_zoom
C1_ReachedMaxZoom ==
    /\ zoom = max_zoom
    /\ last_event[1] = "wheel"
    /\ last_event[2] < 0

\* the index the closed form (start + n * ts) mod len gives, truncated, in
\* exact arithmetic
ClosedFormIndex(start, n, ts, len) ==
    LET whole == (start * Den + n * ts.q) % (len * Den)
    IN  IF n * ts.t < 0 /\ whole % Den = 0
        THEN ((whole \div Den) + len - 1) % len
        ELSE whole \div Den

\* C2: after n ticks from any cursor the cursor is (cursor + n * time_speed)
\* mod len(xyz), truncated for the lookup, for every time_speed, fractional
\* ones included (stated here for the multiples of 1 / Den).
C2_CursorClosedForm ==
    time_speed.t = 0 =>
        \A i \in 1..Len(hist) : \A j \in i..Len(hist) :
            hist[j] = ClosedFormIndex(hist[i], j - i, time_speed, Len(xyz))

\* C3: the index draw_spacecraft looks up is an integer i with
\* 0 <= i < len(xyz), for every length >= 1 and every signed time_speed.
C3_IndexValid == Len(xyz) >= 1 => (0 <= index /\ index < Len(xyz))

\* C4: when len(xyz) / time_speed is a positive integer k, k ticks bring the
\* cursor back to where it was.
C4_RoundTrip ==
    \A i \in 1..Len(hist) : \A j \in i..Len(hist) :
        (/\ time_speed.t = 0
         /\ time_speed.q > 0
         /\ j > i
         /\ (j - i) * time_speed.q = Len(xyz) * Den) => hist[j] = hist[i]

\* C5: one wheel event with delta d sets the zoom to
\* clamp(zoom - (d / 120) * 2000, min_zoom, max_zoom): a positive delta never
\* increases it, a negative one never decreases it, and an unclamped result
\* within the bounds is taken as it is (+120 at 35000 km gives 33000 km).
C5_WheelClamp ==
    [][\A d \in Deltas :
         Ran(<<"wheel", d, 0>>) =>
            LET u == zoom - d \div (notch \div zoom_step)
            IN  /\ zoom' = Clamp(u, min_zoom, max_zoom)
                /\ (d > 0 => zoom' <= zoom)
                /\ (d < 0 => zoom' >= zoom)
                /\ (min_zoom <= u /\ u <= max_zoom => zoom' = u)
                /\ (zoom = 350 /\ d = 120 => zoom' = 330)]_vars

\* one notch of zooming in on the fresh viewer: 35000 km to 33000 km
C5_ScenarioA == nevents = 1 /\ last_event = <<"wheel", 120, 0>> /\ zoom = 330

\* C6: each move adds 0.4 * dy to rotation_x and 0.4 * dx to rotation_y,
\* (dx, dy) being the displacement from the preceding press or move, and
\* records the new position; so since the last press the rotation has changed
\* by 0.4 times the displacement from the press point, whatever the path, and
\* a move that does not displace the pointer leaves the rotation alone.
\* (Angles are in fifths of a degree: 0.4 degrees is 2.)
C6_DragIncremental ==
    /\ [][\A p \in Points :
            (has_last_mouse /\ Ran(<<"move", p[1], p[2]>>)) =>
                /\ (rot_x' - rot_x) = 2 * (p[2] - last_mouse[2])
                /\ (rot_y' - rot_y) = 2 * (p[1] - last_mouse[1])
                /\ last_mouse' = p
                /\ (p = last_mouse => rot_x' = rot_x /\ rot_y' = rot_y)]_vars
    /\ [](has_last_mouse =>
            /\ (rot_x - drag[3]) = 2 * (last_mouse[2] - drag[2])
            /\ (rot_y - drag[4]) = 2 * (last_mouse[1] - drag[1]))

\* press at (100, 100), then a move to (110, 130): 12 and 4 degrees
C6_ScenarioD ==
    /\ nevents = 2
    /\ last_event = <<"move", 110, 130>>
    /\ drag = <<100, 100, initial_rot_x, initial_rot_y>>
    /\ rot_x = initial_rot_x + 60
    /\ rot_y = initial_rot_y + 20

\* the frame has been painted to its end
FrameDone == pc = "idle" /\ raised = "none" /\ last_event[1] = "paint"

\* C7: draw_velocity_vectors emits one segment for each index 0, s, 2s, ...
\* below the sample count and no other (ceil(L / s) of them; 3 for stride 10
\* on 25 samples), each from pos[i] to pos[i] + vel[i] * velocity_scale.
C7_StridedSegments ==
    FrameDone /\ viewer = "static" =>
        LET s == velocity_stride
            n == (Len(xyz) + s - 1) \div s
        IN  /\ Len(frame.lines) = 2 * n
            /\ \A k \in 0..(n - 1) :
                 /\ k * s < Len(xyz)
                 /\ frame.lines[2 * k + 1] = xyz[k * s + 1]
                 /\ frame.lines[2 * k + 2] =
                        Add(xyz[k * s + 1], Scale(vel[k * s + 1], velocity_scale))
            /\ (Len(xyz) = 25 /\ s = 10 => Len(frame.lines) = 2 * 3)

\* stride 10 on 25 samples: the segments of samples 0, 10 and 20
C7_ScenarioE ==
    /\ FrameDone
    /\ Len(xyz) = 25
    /\ velocity_stride = 10
    /\ Len(frame.lines) = 6
    /\ frame.lines[5] = xyz[21]

\* C8: no wheel, press or move handler raises, in whatever order the events
\* reach a fresh viewer (a move before any press included).
C8_HandlersTotal ==
    last_event[1] \in {"wheel", "press", "move"} => raised = "none"

DrawSteps == {"sun", "mars", "atmosphere", "trajectory", "spacecraft", "points",
              "vectors"}

\* C9: during a frame every draw leaves the model-view stack as it found it,
\* of depth one with T(0, 0, -zoom) * Rx(rot_x) * Ry(rot_y) on top, so the
\* planet and the atmosphere are drawn under that matrix and the sun and the
\* marker under it times their own translation only.
C9_StackRestored ==
    /\ [][(pc \in DrawSteps) => modelview' = modelview]_vars
    /\ [](pc \in DrawSteps => modelview = <<ViewMatrix(zoom, rot_x, rot_y)>>)
    /\ [](Len(modelview) = 1)
    /\ [](pc \in DrawSteps \/ FrameDone =>
            \A k \in 1..Len(frame.spheres) :
                LET name == frame.spheres[k][1]
                    m == frame.spheres[k][2]
                    view == ViewMatrix(zoom, rot_x, rot_y)
                IN  /\ name \in {"mars", "atmosphere"} => m = view
                    /\ name = "sun" =>
                         m = Append(view, Translatef(Neg(mars_sun)))
                    /\ name = "spacecraft" =>
                         m = Append(view, Translatef(Item(xyz, index))))

\* a frame of the animated viewer painted to its end after the camera moved
C9_FramePainted ==
    /\ FrameDone
    /\ viewer = "motion"
    /\ Len(frame.spheres) = 4
    /\ zoom # initial_zoom
    /\ modelview = <<ViewMatrix(zoom, rot_x, rot_y)>>

\* C10: a wheel event leaves the angles, the last pointer position and the
\* cursor unchanged; a press changes only the last pointer position; a move
\* leaves the zoom and the cursor unchanged; a tick leaves the zoom, the
\* angles and the last pointer position unchanged; nothing changes the
\* trajectory, the reference vector or CONFIG.
C10_Frames ==
    [][/\ RanKind("wheel") =>
            UNCHANGED <<rot_x, rot_y, has_last_mouse, last_mouse, index>>
       /\ RanKind("press") => UNCHANGED <<rot_x, rot_y, zoom, index>>
       /\ RanKind("move") => UNCHANGED <<zoom, index>>
       /\ RanKind("tick") =>
            UNCHANGED <<zoom, rot_x, rot_y, has_last_mouse, last_mouse>>
       /\ UNCHANGED <<xyz, vel, mars_sun, time_speed, velocity_stride>>]_vars

\* a tick has moved the cursor after a wheel event and a drag
C10_AllHandlersRan ==
    /\ last_event[1] = "tick"
    /\ index # 0
    /\ zoom # initial_zoom
    /\ has_last_mouse
    /\ rot_x # initial_rot_x

====
